---- MODULE Spec2Model ----
(***************************************************************************)
(* Model of the killer-game backend (src/app.py): a Flask application that *)
(* keeps per-player game state in data/state.json and rewrites the file on *)
(* every mutation.                                                         *)
(*                                                                         *)
(* Python values are encoded as follows.                                   *)
(*   str   : a sequence of characters, each character a TLA+ string: an    *)
(*           ASCII character stands for itself, "E_acute" is U+00C9,       *)
(*           "e_acute" U+00E9, "acute" U+0301 (combining)                  *)
(*   None  : the one-element sequence <<"None">> (not a str: "None" is not *)
(*           a character)                                                  *)
(*   list  : a sequence                                                    *)
(*   dict  : for the request bodies, the query strings and the entries of  *)
(*           players.json and assignments.json, a function whose DOMAIN is *)
(*           the set of keys that are present                              *)
(*   the values kept in state.json carry their type, because json.load can *)
(*   return any JSON value in any place: PyNone, PyBool(b), PyInt(n),      *)
(*   PyStr(s) and PyDict(items), a dict as its (key, value) pairs in       *)
(*   insertion order (the order json.dump writes them in)                  *)
(*   bytes : a sequence of bytes, an ASCII byte written as its character,  *)
(*           another byte as "xC3", "x89", ...                             *)
(*   file  : AbsentFile, File(doc) for a file that holds exactly the text  *)
(*           json.dump writes for doc (Saved(doc, size) for state.json,    *)
(*           with the number of its bytes), Torn(bytes) for other content  *)
(***************************************************************************)
EXTENDS Naturals, Sequences, FiniteSets, TLC

VARIABLES
    players_file,       \* data/players.json
    assignments_file,   \* data/assignments.json
    state_file,         \* data/state.json
    req,                \* the request answered last
    resp,               \* the response given to it
    before,             \* history: state.json as it was before that request
    pc,                 \* interleaved handling: position of each worker
    creq,               \* interleaved handling: request of each worker
    rbuf,               \* interleaved handling: what f.read() has read so far
    bufsize,            \* interleaved handling: size of the read buffer
    snap,               \* interleaved handling: what load_json returned
    loc,                \* interleaved handling: the worker's in-memory state
    cresp,              \* interleaved handling: the response a worker will give
    started,            \* interleaved handling: number of requests started
    dirty,              \* history: another worker opened or wrote state.json
                        \* since this worker began to load it
    lastSave,           \* history: the last save was by a worker that no other
                        \* worker had crossed ("clean"), or not ("stale")
    everKeys,           \* history: the keys state.json has held after a save
    n_in,               \* normalization: the input string
    n_out,              \* normalize(n_in)
    n_again,            \* normalize(n_out)
    n_var,              \* a string differing from n_in in case/accents/padding
    n_varout,           \* normalize(n_var)
    n_pc                \* normalization: position

httpVars == <<players_file, assignments_file, state_file, req, resp, before>>
concVars == <<pc, creq, rbuf, bufsize, snap, loc, cresp, started, dirty,
              lastSave, everKeys>>
normVars == <<n_in, n_out, n_again, n_var, n_varout, n_pc>>
vars == <<players_file, assignments_file, state_file, req, resp, before,
          pc, creq, rbuf, bufsize, snap, loc, cresp, started, dirty,
          lastSave, everKeys,
          n_in, n_out, n_again, n_var, n_varout, n_pc>>

----------------------------------------------------------------------------
(* Bounds *)

MaxLen == 3         \* longest input string given to normalize
NumWorkers == 2     \* requests that may be in flight at the same time
MaxRequests == 5    \* requests started in one interleaved run

----------------------------------------------------------------------------
(* Python values *)

None == <<"None">>

EmptyStr == <<>>

EmptyDict == <<>>

\* Python truthiness of None / str: `not x` is true for None and for "".
Truthy(x) == x # None /\ x # EmptyStr

\* a or b
Or(a, b) == IF Truthy(a) THEN a ELSE b

\* dict.get(k) -> None when the key is absent
Get(d, k) == IF k \in DOMAIN d THEN d[k] ELSE None

\* dict.get(k, default)
GetD(d, k, default) == IF k \in DOMAIN d THEN d[k] ELSE default

----------------------------------------------------------------------------
(* The values json.load returns and json.dump writes *)

PyNone == [t |-> "None"]

PyBool(b) == [t |-> "bool", b |-> b]

PyInt(n) == [t |-> "int", n |-> n]

PyStr(s) == [t |-> "str", s |-> s]

\* A dict: its (key, value) pairs in insertion order
PyDict(items) == [t |-> "dict", items |-> items]

\* {}
EmptyState == PyDict(<<>>)

IsDict(v) == v.t = "dict"

\* bool(v)
Bool(v) ==
    CASE v.t = "None" -> FALSE
      [] v.t = "bool" -> v.b
      [] v.t = "int" -> v.n # 0
      [] v.t = "str" -> v.s # EmptyStr
      [] v.t = "dict" -> v.items # <<>>

\* k in d
Has(d, k) == \E i \in 1..Len(d.items) : d.items[i][1] = k

\* The place of key k in d
Index(d, k) == CHOOSE i \in 1..Len(d.items) : d.items[i][1] = k

\* d[k]
Item(d, k) == d.items[Index(d, k)][2]

\* d.get(k, default)
DictGet(d, k, default) == IF Has(d, k) THEN Item(d, k) ELSE default

\* d[k] = v: a new key goes last, a key that is present keeps its place
SetItem(d, k, v) ==
    PyDict(IF Has(d, k)
           THEN [d.items EXCEPT ![Index(d, k)] = <<k, v>>]
           ELSE Append(d.items, <<k, v>>))

\* The keys of a dict, as a set
Keys(d) == { d.items[i][1] : i \in 1..Len(d.items) }

\* The keys the application and json use
K_mission_done == <<"m", "i", "s", "s", "i", "o", "n", "_", "d", "o", "n", "e">>
K_guess == <<"g", "u", "e", "s", "s">>
K_points == <<"p", "o", "i", "n", "t", "s">>
K_discovered_by_target ==
    <<"d", "i", "s", "c", "o", "v", "e", "r", "e", "d", "_", "b", "y", "_",
      "t", "a", "r", "g", "e", "t">>
K_killer_id == <<"k", "i", "l", "l", "e", "r", "_", "i", "d">>
K_killer_display ==
    <<"k", "i", "l", "l", "e", "r", "_", "d", "i", "s", "p", "l", "a", "y">>
K_mission == <<"m", "i", "s", "s", "i", "o", "n">>

----------------------------------------------------------------------------
(* normalize, src/app.py:28-34 *)

Chars == {"e", "E", "e_acute", "E_acute", "acute", " "}

\* unicodedata.normalize("NFD", c) for one code point: canonical decomposition
NFDChar(c) ==
    CASE c = "e_acute" -> <<"e", "acute">>
      [] c = "E_acute" -> <<"E", "acute">>
      [] OTHER -> <<c>>

RECURSIVE NFD(_)
NFD(s) == IF s = <<>> THEN <<>> ELSE NFDChar(Head(s)) \o NFD(Tail(s))

\* unicodedata.category(c) != "Mn": U+0301 is the only nonspacing mark here
IsMn(c) == c = "acute"

RECURSIVE StripMarks(_)
StripMarks(s) ==
    IF s = <<>> THEN <<>>
    ELSE IF IsMn(Head(s)) THEN StripMarks(Tail(s))
    ELSE <<Head(s)>> \o StripMarks(Tail(s))

\* str.lower() per code point
LowerChar(c) ==
    CASE c = "E" -> "e"
      [] c = "E_acute" -> "e_acute"
      [] OTHER -> c

Lower(s) == [i \in 1..Len(s) |-> LowerChar(s[i])]

IsSpace(c) == c = " "

RECURSIVE LStrip(_)
LStrip(s) ==
    IF s = <<>> THEN <<>>
    ELSE IF IsSpace(Head(s)) THEN LStrip(Tail(s))
    ELSE s

RECURSIVE RStrip(_)
RStrip(s) ==
    IF s = <<>> THEN <<>>
    ELSE IF IsSpace(s[Len(s)]) THEN RStrip(SubSeq(s, 1, Len(s) - 1))
    ELSE s

\* str.strip()
Strip(s) == RStrip(LStrip(s))

\* normalize without the NFD decomposition: precomposed letters keep their accent
normalize_nodecomp(text) ==
    IF ~Truthy(text) THEN EmptyStr
    ELSE Strip(Lower(StripMarks(text)))

normalize(text) ==
    IF ~Truthy(text) THEN EmptyStr
    ELSE Strip(Lower(StripMarks(NFD(text))))

----------------------------------------------------------------------------
(* Strings given to normalize *)

RECURSIVE StringsUpTo(_)
StringsUpTo(n) ==
    IF n = 0 THEN {<<>>}
    ELSE LET shorter == StringsUpTo(n - 1)
         IN shorter \cup {Append(s, c) : s \in {t \in shorter : Len(t) = n - 1}, c \in Chars}

\* The plain lower-case letter of a character, written down independently
\* of normalize: "the same letter without case and accent".
PlainChar(c) ==
    CASE c \in {"e", "E", "e_acute", "E_acute"} -> <<"e">>
      [] c = "acute" -> <<>>
      [] OTHER -> <<c>>

RECURSIVE Plain(_)
Plain(s) == IF s = <<>> THEN <<>> ELSE PlainChar(Head(s)) \o Plain(Tail(s))

UpperChar(c) ==
    CASE c = "e" -> "E"
      [] c = "e_acute" -> "E_acute"
      [] OTHER -> c

\* Strings that differ from s only in case, accents or surrounding whitespace
Variants(s) ==
    { Plain(s),
      [i \in 1..Len(s) |-> UpperChar(s[i])],
      NFD(s),
      <<" ">> \o s,
      s \o <<" ">>,
      <<" ">> \o s \o <<" ">> }

NormInit ==
    /\ n_in \in StringsUpTo(MaxLen)
    /\ n_out = None /\ n_again = None /\ n_var = None /\ n_varout = None
    /\ n_pc = "start"

\* out = normalize(s)
NormalizeOnce ==
    /\ n_pc = "start"
    /\ n_out' = normalize(n_in)
    /\ n_pc' = "once"
    /\ UNCHANGED <<n_in, n_again, n_var, n_varout>>
    /\ UNCHANGED httpVars
    /\ UNCHANGED concVars

\* again = normalize(out)
NormalizeAgain ==
    /\ n_pc = "once"
    /\ n_again' = normalize(n_out)
    /\ n_pc' = "twice"
    /\ UNCHANGED <<n_in, n_out, n_var, n_varout>>
    /\ UNCHANGED httpVars
    /\ UNCHANGED concVars

\* normalize applied to a variant of the input
NormalizeVariant ==
    /\ n_pc = "twice"
    /\ \E v \in Variants(n_in) :
          /\ n_var' = v
          /\ n_varout' = normalize(v)
    /\ n_pc' = "variant"
    /\ UNCHANGED <<n_in, n_out, n_again>>
    /\ UNCHANGED httpVars
    /\ UNCHANGED concVars

----------------------------------------------------------------------------
(* json.dump(data, f, ensure_ascii=False, indent=2) and the UTF-8 encoding *)
(* of the text, src/app.py:46-47                                           *)

Quote == "\""

LF == "\n"

\* c.encode("utf-8") for one code point
UTF8(c) ==
    CASE c = "E_acute" -> <<"xC3", "x89">>     \* U+00C9
      [] c = "e_acute" -> <<"xC3", "xA9">>     \* U+00E9
      [] c = "A_acute" -> <<"xC3", "x81">>     \* U+00C1
      [] c = "acute" -> <<"xCC", "x81">>       \* U+0301
      [] c = "hook" -> <<"xCC", "x89">>        \* U+0309
      [] c = "vline" -> <<"xCC", "xA9">>       \* U+0329
      [] OTHER -> <<c>>

RECURSIVE EncodeStr(_)
EncodeStr(s) == IF s = <<>> THEN <<>> ELSE UTF8(Head(s)) \o EncodeStr(Tail(s))

\* A str as JSON text: no character of the strings here needs an escape
DumpStr(s) == <<Quote>> \o EncodeStr(s) \o <<Quote>>

DigitChar(d) ==
    CASE d = 0 -> "0" [] d = 1 -> "1" [] d = 2 -> "2" [] d = 3 -> "3"
      [] d = 4 -> "4" [] d = 5 -> "5" [] d = 6 -> "6" [] d = 7 -> "7"
      [] d = 8 -> "8" [] d = 9 -> "9"

RECURSIVE DumpInt(_)
DumpInt(n) ==
    IF n < 10 THEN <<DigitChar(n)>>
    ELSE Append(DumpInt(n \div 10), DigitChar(n % 10))

\* The indentation of a line at nesting level `level`
Indent(level) == [i \in 1..(2 * level) |-> " "]

\* The bytes json.dump writes for a value that starts at nesting level `level`
RECURSIVE Dump(_, _)
RECURSIVE DumpItems(_, _, _)
Dump(v, level) ==
    CASE v.t = "None" -> <<"n", "u", "l", "l">>
      [] v.t = "bool" ->
            IF v.b THEN <<"t", "r", "u", "e">> ELSE <<"f", "a", "l", "s", "e">>
      [] v.t = "int" -> DumpInt(v.n)
      [] v.t = "str" -> DumpStr(v.s)
      [] v.t = "dict" ->
            IF v.items = <<>> THEN <<"{", "}">>
            ELSE <<"{", LF>> \o DumpItems(v, 1, level + 1)
                 \o <<LF>> \o Indent(level) \o <<"}">>

\* The items of dict d from the i-th on, one `"key": value` per line
DumpItems(d, i, level) ==
    Indent(level) \o DumpStr(d.items[i][1]) \o <<":", " ">>
    \o Dump(d.items[i][2], level)
    \o (IF i = Len(d.items) THEN <<>>
        ELSE <<",", LF>> \o DumpItems(d, i + 1, level))

\* The number of bytes of the same text
CharBytes(c) ==
    IF c \in {"E_acute", "e_acute", "A_acute", "acute", "hook", "vline"} THEN 2 ELSE 1

StrBytes(s) == Len(s) + Cardinality({ i \in 1..Len(s) : CharBytes(s[i]) = 2 })

RECURSIVE IntBytes(_)
IntBytes(n) == IF n < 10 THEN 1 ELSE 1 + IntBytes(n \div 10)

RECURSIVE DumpBytes(_, _)
RECURSIVE ItemsBytes(_, _, _)
DumpBytes(v, level) ==
    CASE v.t = "None" -> 4
      [] v.t = "bool" -> IF v.b THEN 4 ELSE 5
      [] v.t = "int" -> IntBytes(v.n)
      [] v.t = "str" -> StrBytes(v.s) + 2
      [] v.t = "dict" ->
            IF v.items = <<>> THEN 2
            ELSE 2 + ItemsBytes(v, 1, level + 1) + 1 + 2 * level + 1

ItemsBytes(d, i, level) ==
    2 * level + StrBytes(d.items[i][1]) + 2 + 2
    + DumpBytes(d.items[i][2], level)
    + (IF i = Len(d.items) THEN 0 ELSE 2 + ItemsBytes(d, i + 1, level))

----------------------------------------------------------------------------
(* json.load(f), src/app.py:41: the bytes read are decoded as UTF-8 and    *)
(* the text is parsed                                                      *)

IsLead(b) == b \in {"xC3", "xCC"}

IsCont(b) == b \in {"x81", "x89", "xA9"}

\* The code point of a two-byte sequence
CodePoint(lead, cont) ==
    CASE lead = "xC3" /\ cont = "x89" -> "E_acute"
      [] lead = "xC3" /\ cont = "xA9" -> "e_acute"
      [] lead = "xC3" /\ cont = "x81" -> "A_acute"
      [] lead = "xCC" /\ cont = "x81" -> "acute"
      [] lead = "xCC" /\ cont = "x89" -> "hook"
      [] lead = "xCC" /\ cont = "xA9" -> "vline"

\* The byte is part of a well-formed sequence: a lead byte has its
\* continuation byte after it, a continuation byte a lead byte before it
WellFormed(bytes, i) ==
    /\ IsLead(bytes[i]) => (i < Len(bytes) /\ IsCont(bytes[i + 1]))
    /\ IsCont(bytes[i]) => (i > 1 /\ IsLead(bytes[i - 1]))

IsCodePoint(c) == c # "continuation"

\* bytes.decode("utf-8"): the code points, or an error
utf8_decode(bytes) ==
    IF \E i \in 1..Len(bytes) : ~WellFormed(bytes, i) THEN [ok |-> FALSE]
    ELSE [ok |-> TRUE,
          s |-> SelectSeq([i \in 1..Len(bytes) |->
                             IF IsLead(bytes[i]) THEN CodePoint(bytes[i], bytes[i + 1])
                             ELSE IF IsCont(bytes[i]) THEN "continuation"
                             ELSE bytes[i]],
                          IsCodePoint)]

\* The result of scanning a value: the value and the index after it, or an
\* error; `unsupported` marks a text whose value is outside the values of
\* this model (a float, a negative number, a list, NaN, an escape)
Parsed(val, end) == [ok |-> TRUE, val |-> val, end |-> end]

ParseError == [ok |-> FALSE, unsupported |-> FALSE]

Unsupported == [ok |-> FALSE, unsupported |-> TRUE]

IsWs(c) == c \in {" ", LF}

IsDigit(c) == c \in {"0", "1", "2", "3", "4", "5", "6", "7", "8", "9"}

DigitValue(c) ==
    CASE c = "0" -> 0 [] c = "1" -> 1 [] c = "2" -> 2 [] c = "3" -> 3
      [] c = "4" -> 4 [] c = "5" -> 5 [] c = "6" -> 6 [] c = "7" -> 7
      [] c = "8" -> 8 [] c = "9" -> 9

\* The index of the first character from i on that Stop holds of, Len(s) + 1
\* if there is none
FirstFrom(s, i, Stop(_)) ==
    CHOOSE j \in i..(Len(s) + 1) :
        /\ j = Len(s) + 1 \/ Stop(s[j])
        /\ \A k \in i..(j - 1) : ~Stop(s[k])

NotWs(c) == ~IsWs(c)

NotDigit(c) == ~IsDigit(c)

EndsLine(c) == c \in {Quote, LF}

\* The index of the first character from i on that is not whitespace
SkipWs(s, i) == FirstFrom(s, i, NotWs)

\* s[i..] starts with the word w
StartsWith(s, i, w) ==
    i + Len(w) - 1 <= Len(s) /\ SubSeq(s, i, i + Len(w) - 1) = w

\* The index of the quote that closes the string whose first character is
\* s[i]; 0 when the text ends first or holds a line feed (a control
\* character) before it
StringEnd(s, i) ==
    LET e == FirstFrom(s, i, EndsLine)
    IN  IF e <= Len(s) /\ s[e] = Quote THEN e ELSE 0

\* The str between s[i] and the closing quote at s[e]
StringTo(s, i, e) ==
    IF e = 0 THEN ParseError
    ELSE IF \E j \in i..(e - 1) : s[j] = "\\" THEN Unsupported
    ELSE Parsed(SubSeq(s, i, e - 1), e + 1)

\* scanstring: the str after the opening quote at s[i - 1]
ScanString(s, i) == StringTo(s, i, StringEnd(s, i))

\* The index after the digits that start at s[i]
DigitsEnd(s, i) == FirstFrom(s, i, NotDigit)

\* int(s[i..e])
RECURSIVE IntOf(_, _, _)
IntOf(s, i, e) ==
    IF i > e THEN 0 ELSE IntOf(s, i, e - 1) * 10 + DigitValue(s[e])

\* s[e] starts a fraction or an exponent
IsFloat(s, e) ==
    \/ e + 1 <= Len(s) /\ s[e] = "." /\ IsDigit(s[e + 1])
    \/ /\ e + 1 <= Len(s)
       /\ s[e] \in {"e", "E"}
       /\ \/ IsDigit(s[e + 1])
          \/ s[e + 1] \in {"+", "-"} /\ e + 2 <= Len(s) /\ IsDigit(s[e + 2])

\* The int whose digits are s[i..e - 1]
NumberTo(s, i, e) ==
    IF IsFloat(s, e) THEN Unsupported ELSE Parsed(PyInt(IntOf(s, i, e - 1)), e)

\* A number that starts with the digit s[i]: 0, or a digit 1-9 and the
\* digits after it
ScanNumber(s, i) == NumberTo(s, i, IF s[i] = "0" THEN i + 1 ELSE DigitsEnd(s, i))

\* A scanned str as a value
StrValue(str) == IF str.ok THEN Parsed(PyStr(str.val), str.end) ELSE str

RECURSIVE ScanValue(_, _)
RECURSIVE ScanObject(_, _)
RECURSIVE ScanMembers(_, _, _)
RECURSIVE AfterKey(_, _, _)
RECURSIVE AfterName(_, _, _, _)
RECURSIVE AfterValue(_, _, _, _)
RECURSIVE NextMember(_, _, _)

\* scan_once: the value that starts at s[i]
ScanValue(s, i) ==
    IF i > Len(s) THEN ParseError
    ELSE IF s[i] = Quote THEN StrValue(ScanString(s, i + 1))
    ELSE IF s[i] = "{" THEN ScanObject(s, SkipWs(s, i + 1))
    ELSE IF StartsWith(s, i, <<"n", "u", "l", "l">>) THEN Parsed(PyNone, i + 4)
    ELSE IF StartsWith(s, i, <<"t", "r", "u", "e">>) THEN Parsed(PyBool(TRUE), i + 4)
    ELSE IF StartsWith(s, i, <<"f", "a", "l", "s", "e">>) THEN Parsed(PyBool(FALSE), i + 5)
    ELSE IF IsDigit(s[i]) THEN ScanNumber(s, i)
    ELSE IF s[i] \in {"[", "-"} \/ StartsWith(s, i, <<"N", "a", "N">>)
            \/ StartsWith(s, i, <<"I", "n", "f", "i", "n", "i", "t", "y">>)
    THEN Unsupported
    ELSE ParseError

\* JSONObject: the object whose first character after "{" and whitespace
\* is s[j]
ScanObject(s, j) ==
    IF j <= Len(s) /\ s[j] = "}" THEN Parsed(EmptyState, j + 1)
    ELSE ScanMembers(s, j, EmptyState)

\* The members of an object from the key expected at s[j] on; d holds the
\* members scanned so far (d[k] = v in their order)
ScanMembers(s, j, d) ==
    IF j > Len(s) \/ s[j] # Quote THEN ParseError
    ELSE AfterKey(s, d, ScanString(s, j + 1))

\* ... after the key
AfterKey(s, d, key) ==
    IF ~key.ok THEN key ELSE AfterName(s, d, key.val, SkipWs(s, key.end))

\* ... the ":" expected at s[colon]
AfterName(s, d, name, colon) ==
    IF colon > Len(s) \/ s[colon] # ":" THEN ParseError
    ELSE AfterValue(s, d, name, ScanValue(s, SkipWs(s, colon + 1)))

\* ... after the value
AfterValue(s, d, name, value) ==
    IF ~value.ok THEN value
    ELSE NextMember(s, SetItem(d, name, value.val), SkipWs(s, value.end))

\* ... the "," or "}" expected at s[k]
NextMember(s, d, k) ==
    IF k > Len(s) THEN ParseError
    ELSE IF s[k] = "}" THEN Parsed(d, k + 1)
    ELSE IF s[k] = "," THEN ScanMembers(s, SkipWs(s, k + 1), d)
    ELSE ParseError

\* What load_json gives its caller: a value, or an exception
Loaded(val) == [ok |-> TRUE, val |-> val]

Raised(exception) == [ok |-> FALSE, exception |-> exception]

\* The document scanned and what follows it: whitespace only, else
\* "Extra data"
DocumentOf(s, r) ==
    IF ~r.ok
    THEN Raised(IF r.unsupported THEN "Unsupported" ELSE "JSONDecodeError")
    ELSE IF SkipWs(s, r.end) <= Len(s) THEN Raised("JSONDecodeError")
    ELSE IF ~IsDict(r.val) THEN Raised("Unsupported")
    ELSE Loaded(r.val)

\* json.loads of a str
Document(s) == DocumentOf(s, ScanValue(s, SkipWs(s, 1)))

\* The document of decoded bytes
Decoded(d) == IF ~d.ok THEN Raised("UnicodeDecodeError") ELSE Document(d.s)

\* json.loads(bytes.decode("utf-8"))
json_loads(bytes) == Decoded(utf8_decode(bytes))

----------------------------------------------------------------------------
(* Files *)

AbsentFile == [exists |-> FALSE]

\* A file that holds the text json.dump writes for doc
File(doc) == [exists |-> TRUE, doc |-> doc]

\* A file that holds the text json.dump writes for doc, which is `size` bytes
Saved(doc, size) == [exists |-> TRUE, doc |-> doc, size |-> size]

\* A file that holds these bytes
Torn(bytes) == [exists |-> TRUE, bytes |-> bytes]

\* The content is the dump of one document
IsWhole(text) == "doc" \in DOMAIN text

\* The bytes of a file of state.json's kind, or of a read buffer
TextOf(text) == IF IsWhole(text) THEN Dump(text.doc, 0) ELSE text.bytes

\* Their number
TextLen(text) == IF IsWhole(text) THEN text.size ELSE Len(text.bytes)

\* st_size
FileSize(file) == IF ~file.exists THEN 0 ELSE TextLen(file)

\* json.load on what was read: the text json.dump wrote for a document gives
\* that document back, any other text is decoded and parsed
json_load(text) == IF IsWhole(text) THEN Loaded(text.doc) ELSE json_loads(text.bytes)

\* load_json, src/app.py:37-41, with nothing in between
load_json(file, default) == IF ~file.exists THEN Loaded(default) ELSE json_load(file)

\* open that creates the file but does not truncate one that is there
open_w_keep(file) == file

\* open(path, "w"), src/app.py:46: the file is created or truncated
open_w(file) == Torn(<<>>)

\* `size` bytes of text written at offset 0 of a file that holds `held`
\* bytes: bytes beyond the end of the text stay
Written(file, data, size, held) ==
    IF size >= held THEN Saved(data, size)
    ELSE Torn(Dump(data, 0) \o SubSeq(TextOf(file), size + 1, held))

\* json.dump into the buffer and the end of the `with` block, src/app.py:47:
\* the text goes to the file at offset 0 in one write when the file is
\* closed; bytes that another writer put beyond its end stay
dump_close(file, data) == Written(file, data, DumpBytes(data, 0), FileSize(file))

\* save_json, src/app.py:44-47, with nothing in between
save_json(file, data) == dump_close(open_w(file), data)

----------------------------------------------------------------------------
(* The data the requests draw on *)

Mission1 == <<"m", "i", "s", "s", "i", "o", "n", "1">>
Mission2 == <<"m", "i", "s", "s", "i", "o", "n", "2">>
Target1 == <<"t", "a", "r", "g", "e", "t", "1">>
Target2 == <<"t", "a", "r", "g", "e", "t", "2">>
Dash == <<"emdash">>          \* the default text "—" of get_mission

\* Names
Name_Eacute == <<"E_acute">>  \* "É"
Name_e == <<"e">>             \* "e"
Name_Ee == <<"E", "e">>       \* "Ee"
Name_sp == <<" ">>            \* " "

\* Contents of data/players.json and data/assignments.json the model
\* starts from (both are read, never written, by the application)
Players1 ==
    << [id |-> Name_Eacute, display |-> Name_Eacute],
       [id |-> Name_e, display |-> Name_e] >>

Players2 ==
    << [id |-> Name_Eacute, display |-> Name_Eacute],
       [display |-> Name_Ee],
       [id |-> EmptyStr, display |-> Name_e],
       [id |-> Name_Ee, display |-> Name_Ee] >>

Assignments1 ==
    << [killer |-> Name_Eacute, mission |-> Mission1, target |-> Target1],
       [killer |-> Name_e, mission |-> Mission2, target |-> Target2] >>

Assignments2 ==
    << [killer |-> Name_Ee, target |-> Target1],
       [killer |-> Name_Eacute, mission |-> Mission2] >>

Assignments3 ==
    << [mission |-> Mission1, target |-> Target1],
       [killer |-> Name_sp, mission |-> Mission2, target |-> Target2] >>

\* The entry ensure_player_state creates, src/app.py:53-58
DefaultEntry ==
    SetItem(SetItem(SetItem(SetItem(EmptyState,
        K_mission_done, PyBool(FALSE)),
        K_guess, PyNone),
        K_points, PyInt(0)),
        K_discovered_by_target, PyBool(FALSE))

\* A state.json that exists before the first request, written by hand: an
\* entry whose points and discovered_by_target are set (no handler sets
\* them), and an entry that has only some of the fields
SeededState ==
    SetItem(SetItem(EmptyState,
        Name_Eacute,
            SetItem(SetItem(DefaultEntry, K_points, PyInt(2)),
                    K_discovered_by_target, PyBool(TRUE))),
        Name_e, SetItem(EmptyState, K_points, PyInt(1)))

\* <<players.json, assignments.json, state.json>> at start
DataSets ==
    { <<File(Players1), File(Assignments1), AbsentFile>>,
      <<File(Players2), File(Assignments2), Saved(SeededState, DumpBytes(SeededState, 0))>>,
      <<AbsentFile, File(Assignments3), AbsentFile>>,
      <<File(Players2), AbsentFile, AbsentFile>> }

\* ensure_player_state without its `if`: the entry is re-created on every call
ensure_player_state_always(state, player_id) ==
    SetItem(state, player_id, DefaultEntry)

\* ensure_player_state that starts a new dict for a new player
ensure_player_state_reset(state, player_id) ==
    IF ~Has(state, player_id)
    THEN SetItem(EmptyState, player_id, DefaultEntry)
    ELSE state

\* ensure_player_state, src/app.py:50-59: the state after the call
\* (the returned entry is Item(ensure_player_state(state, id), id))
ensure_player_state(state, player_id) ==
    IF ~Has(state, player_id)
    THEN SetItem(state, player_id, DefaultEntry)
    ELSE state

----------------------------------------------------------------------------
(* The handlers.  Each is a function of the request, of the files it reads *)
(* and of what load_json(STATE_FILE, {}) gives it (`loaded`); it yields    *)
(* the response, whether save_json(STATE_FILE, state) is called, and the   *)
(* state dict handed to it.  An exception that no handler catches is       *)
(* answered by Flask with status 500.                                      *)

Response(status, json) == [status |-> status, json |-> json]

Outcome(write, state, response) ==
    [write |-> write, state |-> state, resp |-> response]

\* return jsonify(ok=False, error=...), status
Refuse(status, msg) ==
    Outcome(FALSE, EmptyState, Response(status, [ok |-> FALSE, error |-> msg]))

\* The answer to an uncaught exception
Error500(exception) == Response(500, [exception |-> exception])

\* An uncaught exception before anything is saved
Crash(exception) == Outcome(FALSE, EmptyState, Error500(exception))

\* health, src/app.py:66-68
health == Outcome(FALSE, EmptyState, Response(200, [text |-> "Backend is running"]))

\* get_players, src/app.py:76-79
get_players(players_f) ==
    Outcome(FALSE, EmptyState, Response(200, [list |-> load_json(players_f, <<>>).val]))

\* The assignments the loop of get_mission stops at, src/app.py:99-100
Matches(assignments, norm_input) ==
    { i \in 1..Len(assignments) :
        normalize(GetD(assignments[i], "killer", EmptyStr)) = norm_input }

FirstMatch(assignments, norm_input) ==
    CHOOSE i \in Matches(assignments, norm_input) :
        \A j \in Matches(assignments, norm_input) : i <= j

\* get_mission, src/app.py:87-114.  a["killer"] on an assignment without
\* that key raises KeyError; player_state.get on an entry that is no dict
\* raises AttributeError, after save_json.
get_mission(args, assignments_f, loaded) ==
    LET player_display == Get(args, "player")
        assignments == load_json(assignments_f, <<>>).val
        norm_input == normalize(player_display)
    IN  IF ~Truthy(player_display)
        THEN Refuse(400, "Missing player parameter")
        ELSE IF ~loaded.ok
        THEN Crash(loaded.exception)
        ELSE IF Matches(assignments, norm_input) = {}
        THEN Refuse(404, "Player not found")
        ELSE LET a == assignments[FirstMatch(assignments, norm_input)]
             IN  IF "killer" \notin DOMAIN a
                 THEN Crash("KeyError")
                 ELSE LET killer_name == a["killer"]
                          state == ensure_player_state(loaded.val, killer_name)
                          player_state == Item(state, killer_name)
                      IN  IF ~IsDict(player_state)
                          THEN Outcome(TRUE, state, Error500("AttributeError"))
                          ELSE Outcome(TRUE, state,
                                Response(200,
                                  [ok |-> TRUE,
                                   player |-> [id |-> killer_name, display |-> killer_name],
                                   mission |-> [text |-> GetD(a, "mission", Dash)],
                                   target |-> [display |-> GetD(a, "target", Dash)],
                                   mission_done |->
                                      Bool(DictGet(player_state, K_mission_done,
                                                   PyBool(FALSE)))]))

\* mission_done that flips the flag instead of setting it
mission_done_toggle(data, loaded) ==
    LET player_id == Or(Get(data, "player_id"), Get(data, "player_display"))
    IN  IF ~Truthy(player_id)
        THEN Refuse(400, "Missing player_id")
        ELSE IF ~loaded.ok
        THEN Crash(loaded.exception)
        ELSE LET state == ensure_player_state(loaded.val, player_id)
                 entry == Item(state, player_id)
             IN  IF ~IsDict(entry)
                 THEN Crash("TypeError")
                 ELSE Outcome(TRUE,
                        SetItem(state, player_id,
                          SetItem(entry, K_mission_done,
                            PyBool(~Bool(DictGet(entry, K_mission_done, PyBool(FALSE)))))),
                        Response(200, [ok |-> TRUE, mission_done |-> TRUE]))

\* mission_done, src/app.py:123-137.  entry["mission_done"] = True on an
\* entry that is no dict raises TypeError.
mission_done(data, loaded) ==
    LET player_id == Or(Get(data, "player_id"), Get(data, "player_display"))
    IN  IF ~Truthy(player_id)
        THEN Refuse(400, "Missing player_id")
        ELSE IF ~loaded.ok
        THEN Crash(loaded.exception)
        ELSE LET state == ensure_player_state(loaded.val, player_id)
                 entry == Item(state, player_id)
             IN  IF ~IsDict(entry)
                 THEN Crash("TypeError")
                 ELSE Outcome(TRUE,
                        SetItem(state, player_id,
                          SetItem(entry, K_mission_done, PyBool(TRUE))),
                        Response(200, [ok |-> TRUE, mission_done |-> TRUE]))

\* The dict submit_guess stores, src/app.py:168-172
Guess(accused_id, guessed_mission) ==
    SetItem(SetItem(SetItem(EmptyState,
        K_killer_id, PyStr(accused_id)),
        K_killer_display, PyStr(accused_id)),
        K_mission, PyStr(guessed_mission))

\* submit_guess that keeps a guess already on record
submit_guess_keepfirst(data, loaded) ==
    LET player_id == Or(Get(data, "player_id"), Get(data, "player_display"))
        accused_id == Or(Get(data, "accused_killer_id"), Get(data, "accused_killer_display"))
        guessed_mission == Get(data, "guessed_mission")
    IN  IF ~Truthy(player_id)
        THEN Refuse(400, "Missing player_id")
        ELSE IF ~Truthy(accused_id)
        THEN Refuse(400, "Missing accused_killer_id")
        ELSE IF ~Truthy(guessed_mission)
        THEN Refuse(400, "Missing guessed_mission")
        ELSE IF ~loaded.ok
        THEN Crash(loaded.exception)
        ELSE LET state == ensure_player_state(loaded.val, player_id)
                 entry == Item(state, player_id)
             IN  IF ~IsDict(entry)
                 THEN Crash("TypeError")
                 ELSE Outcome(TRUE,
                        IF Bool(DictGet(entry, K_guess, PyNone))
                        THEN state
                        ELSE SetItem(state, player_id,
                               SetItem(entry, K_guess, Guess(accused_id, guessed_mission))),
                        Response(200, [ok |-> TRUE]))

\* submit_guess that checks guessed_mission before the accused killer
submit_guess_swapped(data, loaded) ==
    LET player_id == Or(Get(data, "player_id"), Get(data, "player_display"))
        accused_id == Or(Get(data, "accused_killer_id"), Get(data, "accused_killer_display"))
        guessed_mission == Get(data, "guessed_mission")
    IN  IF ~Truthy(player_id)
        THEN Refuse(400, "Missing player_id")
        ELSE IF ~Truthy(guessed_mission)
        THEN Refuse(400, "Missing guessed_mission")
        ELSE IF ~Truthy(accused_id)
        THEN Refuse(400, "Missing accused_killer_id")
        ELSE IF ~loaded.ok
        THEN Crash(loaded.exception)
        ELSE LET state == ensure_player_state(loaded.val, player_id)
                 entry == Item(state, player_id)
             IN  IF ~IsDict(entry)
                 THEN Crash("TypeError")
                 ELSE Outcome(TRUE,
                        SetItem(state, player_id,
                          SetItem(entry, K_guess, Guess(accused_id, guessed_mission))),
                        Response(200, [ok |-> TRUE]))

\* submit_guess that creates and saves the player's entry before it checks
\* the accused killer and the mission
submit_guess_latecheck(data, loaded) ==
    LET player_id == Or(Get(data, "player_id"), Get(data, "player_display"))
        accused_id == Or(Get(data, "accused_killer_id"), Get(data, "accused_killer_display"))
        guessed_mission == Get(data, "guessed_mission")
    IN  IF ~Truthy(player_id)
        THEN Refuse(400, "Missing player_id")
        ELSE IF ~loaded.ok
        THEN Crash(loaded.exception)
        ELSE LET state == ensure_player_state(loaded.val, player_id)
                 entry == Item(state, player_id)
             IN  IF ~Truthy(accused_id)
                 THEN Outcome(TRUE, state,
                        Response(400, [ok |-> FALSE, error |-> "Missing accused_killer_id"]))
                 ELSE IF ~Truthy(guessed_mission)
                 THEN Outcome(TRUE, state,
                        Response(400, [ok |-> FALSE, error |-> "Missing guessed_mission"]))
                 ELSE IF ~IsDict(entry)
                 THEN Crash("TypeError")
                 ELSE Outcome(TRUE,
                        SetItem(state, player_id,
                          SetItem(entry, K_guess, Guess(accused_id, guessed_mission))),
                        Response(200, [ok |-> TRUE]))

\* submit_guess, src/app.py:150-175.  entry["guess"] = {...} on an entry
\* that is no dict raises TypeError.
submit_guess(data, loaded) ==
    LET player_id == Or(Get(data, "player_id"), Get(data, "player_display"))
        accused_id == Or(Get(data, "accused_killer_id"), Get(data, "accused_killer_display"))
        guessed_mission == Get(data, "guessed_mission")
    IN  IF ~Truthy(player_id)
        THEN Refuse(400, "Missing player_id")
        ELSE IF ~Truthy(accused_id)
        THEN Refuse(400, "Missing accused_killer_id")
        ELSE IF ~Truthy(guessed_mission)
        THEN Refuse(400, "Missing guessed_mission")
        ELSE IF ~loaded.ok
        THEN Crash(loaded.exception)
        ELSE LET state == ensure_player_state(loaded.val, player_id)
                 entry == Item(state, player_id)
             IN  IF ~IsDict(entry)
                 THEN Crash("TypeError")
                 ELSE Outcome(TRUE,
                        SetItem(state, player_id,
                          SetItem(entry, K_guess, Guess(accused_id, guessed_mission))),
                        Response(200, [ok |-> TRUE]))

\* s.get("guess") or {}, src/app.py:195
GuessOrEmpty(s) ==
    IF Bool(DictGet(s, K_guess, PyNone)) THEN Item(s, K_guess) ELSE EmptyState

\* The row could not be built: s.get or guess.get on a value that is no
\* dict raises AttributeError
RowError == [exception |-> "AttributeError"]

\* One row of the leaderboard, src/app.py:194-205
Row(name, state) ==
    LET s == DictGet(state, name, EmptyState)
    IN  IF ~IsDict(s) THEN RowError
        ELSE LET guess == GuessOrEmpty(s)
             IN  IF ~IsDict(guess) THEN RowError
                 ELSE [display |-> name,
                       points |-> DictGet(s, K_points, PyInt(0)),
                       mission_done |-> Bool(DictGet(s, K_mission_done, PyBool(FALSE))),
                       discovered_by_target |->
                           Bool(DictGet(s, K_discovered_by_target, PyBool(FALSE))),
                       found_killer |-> Bool(guess),
                       guess_killer_display |-> DictGet(guess, K_killer_display, PyNone),
                       guess_mission |-> DictGet(guess, K_mission, PyNone)]

\* The loop of leaderboard without `if not name: continue`
RECURSIVE Rows_noskip(_, _)
Rows_noskip(players, state) ==
    IF players = <<>> THEN <<>>
    ELSE <<Row(Get(Head(players), "id"), state)>> \o Rows_noskip(Tail(players), state)

\* The loop of leaderboard, src/app.py:188-205: entries without a
\* truthy "id" are skipped
RECURSIVE Rows(_, _)
Rows(players, state) ==
    IF players = <<>> THEN <<>>
    ELSE LET name == Get(Head(players), "id")
         IN  IF ~Truthy(name)
             THEN Rows(Tail(players), state)
             ELSE <<Row(name, state)>> \o Rows(Tail(players), state)

\* leaderboard, src/app.py:183-207
leaderboard(players_f, loaded) ==
    IF ~loaded.ok
    THEN Crash(loaded.exception)
    ELSE LET rows == Rows(load_json(players_f, <<>>).val, loaded.val)
         IN  IF \E i \in 1..Len(rows) : rows[i] = RowError
             THEN Crash("AttributeError")
             ELSE Outcome(FALSE, EmptyState, Response(200, [rows |-> rows]))

----------------------------------------------------------------------------
(* Requests *)

\* A JSON object / query string without the keys whose value is None
Present(d) == [k \in {x \in DOMAIN d : d[x] # None} |-> d[k]]

Request(endpoint, data) == [endpoint |-> endpoint, data |-> data]

MissionArgs ==
    { Present([player |-> v]) :
        v \in {None, EmptyStr, Name_e, Name_sp, <<" ", "E", "acute">>, <<"e", "e">>} }

MissionDoneBodies ==
    { Present([player_id |-> a, player_display |-> b]) :
        a \in {None, EmptyStr, Name_Eacute}, b \in {None, EmptyStr, Name_e} }

\* The (player_id, player_display) pairs of the guess bodies
GuessPlayerParts ==
    { <<None, None>>, <<Name_Eacute, None>>, <<EmptyStr, Name_e>> }

\* Their (accused_killer_id, accused_killer_display, guessed_mission) triples
GuessAccusedParts ==
    { <<None, None, None>>, <<None, None, Mission2>>, <<EmptyStr, None, Mission1>>,
      <<Name_e, None, None>>, <<Name_e, None, EmptyStr>>,
      <<Name_e, None, Mission1>>, <<None, Name_Ee, Mission2>> }

GuessBodies ==
    { Present([player_id |-> pp[1], player_display |-> pp[2],
               accused_killer_id |-> ap[1], accused_killer_display |-> ap[2],
               guessed_mission |-> ap[3]]) :
        pp \in GuessPlayerParts, ap \in GuessAccusedParts }

\* Dispatch of a request to its handler (the @app.get/@app.post routes)
Handle(r, players_f, assignments_f, loaded) ==
    CASE r.endpoint = "health" -> health
      [] r.endpoint = "players" -> get_players(players_f)
      [] r.endpoint = "mission" -> get_mission(r.data, assignments_f, loaded)
      [] r.endpoint = "mission_done" -> mission_done(r.data, loaded)
      [] r.endpoint = "guess" -> submit_guess(r.data, loaded)
      [] r.endpoint = "leaderboard" -> leaderboard(players_f, loaded)

\* The handler of the request calls load_json(STATE_FILE, {}): it has not
\* returned before
ReachesLoad(r) ==
    CASE r.endpoint = "mission" -> Truthy(Get(r.data, "player"))
      [] r.endpoint = "mission_done" ->
            Truthy(Or(Get(r.data, "player_id"), Get(r.data, "player_display")))
      [] r.endpoint = "guess" ->
            /\ Truthy(Or(Get(r.data, "player_id"), Get(r.data, "player_display")))
            /\ Truthy(Or(Get(r.data, "accused_killer_id"),
                         Get(r.data, "accused_killer_display")))
            /\ Truthy(Get(r.data, "guessed_mission"))
      [] r.endpoint = "leaderboard" -> TRUE
      [] OTHER -> FALSE

NoRequest == Request("none", EmptyDict)
NoResponse == Response(0, EmptyDict)

----------------------------------------------------------------------------
(* Requests handled one at a time *)

\* What f.read() has read: these bytes, or all the text of a document
Buffer(bytes) == [bytes |-> bytes]

WholeBuffer(doc, size) == [doc |-> doc, size |-> size]

ConcIdle ==
    /\ pc = [w \in 1..NumWorkers |-> "idle"]
    /\ creq = [w \in 1..NumWorkers |-> NoRequest]
    /\ rbuf = [w \in 1..NumWorkers |-> Buffer(<<>>)]
    /\ bufsize = [w \in 1..NumWorkers |-> 0]
    /\ snap = [w \in 1..NumWorkers |-> EmptyState]
    /\ loc = [w \in 1..NumWorkers |-> EmptyState]
    /\ cresp = [w \in 1..NumWorkers |-> NoResponse]
    /\ started = 0
    /\ dirty = [w \in 1..NumWorkers |-> FALSE]
    /\ lastSave = "none"
    /\ everKeys = {}

NormIdle ==
    /\ n_in = EmptyStr /\ n_out = None /\ n_again = None
    /\ n_var = None /\ n_varout = None /\ n_pc = "off"

Init ==
    /\ \E ds \in DataSets :
          /\ players_file = ds[1]
          /\ assignments_file = ds[2]
          /\ state_file = ds[3]
          /\ before = ds[3]
    /\ req = NoRequest
    /\ resp = NoResponse
    /\ ConcIdle
    /\ NormIdle

\* The end of a request handled with nothing in between: the state is
\* saved if the handler calls save_json, and the response is returned
Commit(out) ==
    /\ resp' = out.resp
    /\ before' = state_file
    /\ state_file' = IF out.write THEN save_json(state_file, out.state) ELSE state_file
    /\ UNCHANGED <<players_file, assignments_file>>
    /\ UNCHANGED concVars
    /\ UNCHANGED normVars

\* GET /
Health ==
    \E out \in {health} :
        /\ req' = Request("health", EmptyDict)
        /\ Commit(out)

\* GET /api/players
GetPlayers ==
    \E out \in {get_players(players_file)} :
        /\ req' = Request("players", EmptyDict)
        /\ Commit(out)

\* GET /api/mission?player=...
GetMission ==
    \E args \in MissionArgs :
        \E out \in {get_mission(args, assignments_file, load_json(state_file, EmptyState))} :
            /\ req' = Request("mission", args)
            /\ Commit(out)

\* POST /api/mission_done
MissionDone ==
    \E data \in MissionDoneBodies :
        \E out \in {mission_done(data, load_json(state_file, EmptyState))} :
            /\ req' = Request("mission_done", data)
            /\ Commit(out)

\* POST /api/guess
SubmitGuess ==
    \E data \in GuessBodies :
        \E out \in {submit_guess(data, load_json(state_file, EmptyState))} :
            /\ req' = Request("guess", data)
            /\ Commit(out)

\* GET /api/leaderboard
Leaderboard ==
    \E out \in {leaderboard(players_file, load_json(state_file, EmptyState))} :
        /\ req' = Request("leaderboard", EmptyDict)
        /\ Commit(out)

Next == Health \/ GetPlayers \/ GetMission \/ MissionDone \/ SubmitGuess \/ Leaderboard

Spec == Init /\ [][Next]_vars

\* Normalization applied to every string of at most MaxLen characters
InitNorm ==
    /\ players_file = AbsentFile /\ assignments_file = AbsentFile
    /\ state_file = AbsentFile /\ before = AbsentFile
    /\ req = NoRequest /\ resp = NoResponse
    /\ ConcIdle
    /\ NormInit

NextNorm == NormalizeOnce \/ NormalizeAgain \/ NormalizeVariant

SpecNorm == InitNorm /\ [][NextNorm]_vars

----------------------------------------------------------------------------
(* Requests that interleave.  Nothing locks state.json, and neither        *)
(* load_json nor save_json is one step.  load_json is os.path.exists,      *)
(* open and, in json.load, f.read(): an fstat that sizes the buffer and    *)
(* then one read after the other until a read returns no byte; the text    *)
(* read is parsed and the handler runs up to its call of save_json.        *)
(* save_json is open(path, "w"), which truncates state.json, and the end   *)
(* of the `with` block, which writes the dumped text in one write at       *)
(* offset 0.  exists and open are one step here: the file is never         *)
(* removed and open reads nothing, so a save between them has the effect   *)
(* of the same save before them.                                           *)

Workers == 1..NumWorkers

ConcRequests ==
    { Request("mission", [player |-> <<" ", "E", "acute">>]),
      Request("mission_done", [player_id |-> Name_Eacute]),
      Request("guess", [player_display |-> Name_e, accused_killer_id |-> Name_Eacute,
                        guessed_mission |-> Mission1]),
      Request("leaderboard", EmptyDict) }

InitConc ==
    /\ players_file = File(Players1)
    /\ assignments_file = File(Assignments1)
    /\ state_file = AbsentFile
    /\ before = AbsentFile
    /\ req = NoRequest
    /\ resp = NoResponse
    /\ ConcIdle
    /\ NormIdle

\* The size f.read() gives its buffer first when the file holds no byte,
\* and the least it adds to a buffer that is full
SMALLCHUNK == 8192

\* The size of the buffer of f.read() after its first fstat
first_buffersize(size) == IF size > 0 THEN size + 1 ELSE SMALLCHUNK

\* The size f.read() gives a buffer that is full
new_buffersize(currentsize) ==
    currentsize + (IF 256 + currentsize < SMALLCHUNK THEN SMALLCHUNK
                   ELSE 256 + currentsize)

\* The number of bytes a read returns when f.read() has `pos` bytes in a
\* buffer of `buffersize` and the file holds `size`: what it asks for, or
\* what the file holds beyond `pos` if that is less
Returned(buffersize, pos, size) ==
    IF size <= pos THEN 0
    ELSE IF buffersize - pos < size - pos THEN buffersize - pos
    ELSE size - pos

\* The number of bytes a read of worker w returns now
ReadCount(w) == Returned(bufsize[w], TextLen(rbuf[w]), FileSize(state_file))

\* The workers that have begun to load state.json and not finished saving it
MidRequest(w) == pc[w] \in {"open", "reading", "loaded", "opened"}

\* The request of worker w is answered: its local variables are gone
Answer(w, r, response) ==
    /\ req' = r
    /\ resp' = response
    /\ pc' = [pc EXCEPT ![w] = "idle"]
    /\ creq' = [creq EXCEPT ![w] = NoRequest]
    /\ cresp' = [cresp EXCEPT ![w] = NoResponse]
    /\ rbuf' = [rbuf EXCEPT ![w] = Buffer(<<>>)]
    /\ bufsize' = [bufsize EXCEPT ![w] = 0]
    /\ snap' = [snap EXCEPT ![w] = EmptyState]
    /\ loc' = [loc EXCEPT ![w] = EmptyState]

\* The handler of request r from the return of load_json (which gave
\* `state`) to its call of save_json; a request that is answered without
\* saving (a refusal, a read, an exception) is over
Proceed(w, r, out, state) ==
    IF out.write
    THEN /\ pc' = [pc EXCEPT ![w] = "loaded"]
         /\ creq' = [creq EXCEPT ![w] = r]
         /\ cresp' = [cresp EXCEPT ![w] = out.resp]
         /\ snap' = [snap EXCEPT ![w] = state]
         /\ loc' = [loc EXCEPT ![w] = out.state]
         /\ rbuf' = [rbuf EXCEPT ![w] = Buffer(<<>>)]
         /\ bufsize' = [bufsize EXCEPT ![w] = 0]
         /\ UNCHANGED <<req, resp, dirty>>
    ELSE /\ Answer(w, r, out.resp)
         /\ dirty' = [dirty EXCEPT ![w] = FALSE]

\* A request arrives.  Its handler runs to load_json, src/app.py:38-40:
\* without state.json the default is returned and the handler goes on;
\* with it, the file is opened.
Start(w) ==
    /\ pc[w] = "idle"
    /\ started < MaxRequests
    /\ started' = started + 1
    /\ \E r \in ConcRequests :
          IF ReachesLoad(r) /\ state_file.exists
          THEN /\ pc' = [pc EXCEPT ![w] = "open"]
               /\ creq' = [creq EXCEPT ![w] = r]
               /\ UNCHANGED <<rbuf, bufsize, snap, loc, cresp, req, resp, dirty>>
          ELSE \E out \in {Handle(r, players_file, assignments_file,
                                  Loaded(EmptyState))} :
                   Proceed(w, r, out, EmptyState)
    /\ UNCHANGED <<lastSave, everKeys>>
    /\ UNCHANGED <<players_file, assignments_file, state_file, before>>
    /\ UNCHANGED normVars

\* json.load, src/app.py:41: f.read() sizes its buffer by the size fstat
\* gives
Stat(w) ==
    /\ pc[w] = "open"
    /\ pc' = [pc EXCEPT ![w] = "reading"]
    /\ bufsize' = [bufsize EXCEPT ![w] = first_buffersize(FileSize(state_file))]
    /\ UNCHANGED <<creq, rbuf, snap, loc, cresp, started, dirty, lastSave, everKeys>>
    /\ UNCHANGED httpVars
    /\ UNCHANGED normVars

\* json.load, src/app.py:41: one read of f.read() that returns bytes
Read(w) ==
    /\ pc[w] = "reading"
    /\ \E pos \in {TextLen(rbuf[w])}, size \in {FileSize(state_file)} :
          \E n \in {Returned(bufsize[w], pos, size)} :
              /\ n > 0
              /\ rbuf' = [rbuf EXCEPT ![w] =
                            IF pos = 0 /\ IsWhole(state_file) /\ n = size
                            THEN WholeBuffer(state_file.doc, size)
                            ELSE Buffer(TextOf(rbuf[w])
                                        \o SubSeq(TextOf(state_file), pos + 1, pos + n))]
              /\ bufsize' = [bufsize EXCEPT ![w] =
                               IF pos + n >= bufsize[w] THEN new_buffersize(pos + n)
                               ELSE bufsize[w]]
    /\ UNCHANGED <<pc, creq, snap, loc, cresp, started, dirty, lastSave, everKeys>>
    /\ UNCHANGED httpVars
    /\ UNCHANGED normVars

\* json.load, src/app.py:41: the read that returns no byte ends f.read();
\* the text is parsed and the handler goes on
EndOfFile(w) ==
    /\ pc[w] = "reading"
    /\ ReadCount(w) = 0
    /\ \E loaded \in {json_load(rbuf[w])} :
          \E out \in {Handle(creq[w], players_file, assignments_file, loaded)} :
              Proceed(w, creq[w], out, IF loaded.ok THEN loaded.val ELSE EmptyState)
    /\ UNCHANGED <<started, lastSave, everKeys>>
    /\ UNCHANGED <<players_file, assignments_file, state_file, before>>
    /\ UNCHANGED normVars

\* save_json, src/app.py:46: open(path, "w")
Open(w) ==
    /\ pc[w] = "loaded"
    /\ state_file' = open_w(state_file)
    /\ pc' = [pc EXCEPT ![w] = "opened"]
    /\ dirty' = [v \in Workers |-> IF v # w /\ MidRequest(v) THEN TRUE ELSE dirty[v]]
    /\ UNCHANGED <<creq, rbuf, bufsize, snap, loc, cresp, started, lastSave, everKeys>>
    /\ UNCHANGED <<players_file, assignments_file, req, resp, before>>
    /\ UNCHANGED normVars

\* save_json, src/app.py:47: json.dump and the end of the `with` block; the
\* handler returns its response
Close(w) ==
    /\ pc[w] = "opened"
    /\ \E file \in {dump_close(state_file, loc[w])} :
          /\ state_file' = file
          /\ everKeys' = IF IsWhole(file) THEN everKeys \cup Keys(file.doc)
                         ELSE everKeys
    /\ Answer(w, creq[w], cresp[w])
    /\ lastSave' = IF dirty[w] THEN "stale" ELSE "clean"
    /\ dirty' = [v \in Workers |->
                   IF v = w THEN FALSE
                   ELSE IF MidRequest(v) THEN TRUE ELSE dirty[v]]
    /\ UNCHANGED started
    /\ UNCHANGED <<players_file, assignments_file, before>>
    /\ UNCHANGED normVars

NextConc ==
    \E w \in Workers :
        Start(w) \/ Stat(w) \/ Read(w) \/ EndOfFile(w) \/ Open(w) \/ Close(w)

SpecConc == InitConc /\ [][NextConc]_vars

----------------------------------------------------------------------------
(* Checks of the encoding *)

\* json.load gives back what json.dump wrote
RoundTrip ==
    (state_file.exists /\ IsWhole(state_file)) =>
        json_loads(Dump(state_file.doc, 0)) = Loaded(state_file.doc)

\* The bytes counted are the bytes written
SizeIsLength ==
    (state_file.exists /\ IsWhole(state_file)) =>
        state_file.size = Len(Dump(state_file.doc, 0))

\* No text read holds a value outside the values of this model
NoUnsupported ==
    /\ resp.status = 500 => resp.json.exception # "Unsupported"
    /\ \A w \in Workers :
          cresp[w].status = 500 => cresp[w].json.exception # "Unsupported"

----------------------------------------------------------------------------
(* Vocabulary of the properties *)

\* The key is present in the JSON object with a non-empty string
NonEmpty(d, k) == k \in DOMAIN d /\ d[k] # EmptyStr

\* The player a POST body names: player_id, else player_display
BodyPlayer(d) == IF NonEmpty(d, "player_id") THEN d["player_id"] ELSE d["player_display"]

HasPlayer(d) == NonEmpty(d, "player_id") \/ NonEmpty(d, "player_display")

\* The accused killer a guess names
BodyAccused(d) ==
    IF NonEmpty(d, "accused_killer_id") THEN d["accused_killer_id"]
    ELSE d["accused_killer_display"]

HasAccused(d) == NonEmpty(d, "accused_killer_id") \/ NonEmpty(d, "accused_killer_display")

\* state.json is absent or holds a JSON document
Readable == ~state_file.exists \/ IsWhole(state_file)

\* The persisted state: the content of state.json, {} while it is absent
\* (and while it cannot be read)
Persisted ==
    IF state_file.exists /\ IsWhole(state_file) THEN state_file.doc ELSE EmptyState

PersistedBefore == IF before.exists THEN before.doc ELSE EmptyState

\* The entry says the mission is done
IsDone(entry) == Has(entry, K_mission_done) /\ Item(entry, K_mission_done) = PyBool(TRUE)

\* The entry holds a guess
HasGuess(entry) == Has(entry, K_guess) /\ Item(entry, K_guess) # PyNone

ErrorBody(msg) == [ok |-> FALSE, error |-> msg]

Accepted(endpoint) == req.endpoint = endpoint /\ resp.status = 200

----------------------------------------------------------------------------
(* C1 *)

\* C1: POST /api/mission_done is idempotent.  Every mission_done request
\* that names a player answers {ok:true, mission_done:true} and leaves that
\* player's mission_done true; when the request handled just before it was a
\* mission_done for the same player, state.json is left exactly as it was.
C1_MissionDoneIdempotent ==
    [][ (req'.endpoint = "mission_done" /\ HasPlayer(req'.data)) =>
          /\ resp' = Response(200, [ok |-> TRUE, mission_done |-> TRUE])
          /\ state_file'.exists
          /\ IsWhole(state_file')
          /\ Has(state_file'.doc, BodyPlayer(req'.data))
          /\ IsDone(Item(state_file'.doc, BodyPlayer(req'.data)))
          /\ (Accepted("mission_done") /\ HasPlayer(req.data)
                /\ BodyPlayer(req.data) = BodyPlayer(req'.data))
               => state_file' = state_file ]_vars

\* A mission_done request handled for a player whose mission was already
\* done and who also has a guess on record
C1_Witness ==
    /\ Accepted("mission_done")
    /\ Has(PersistedBefore, BodyPlayer(req.data))
    /\ IsDone(Item(PersistedBefore, BodyPlayer(req.data)))
    /\ HasGuess(Item(PersistedBefore, BodyPlayer(req.data)))
    /\ state_file = before

----------------------------------------------------------------------------
(* C2 *)

\* C2: POST /api/guess overwrites any prior guess.  After an accepted guess
\* request the player's guess is exactly the accused killer (as killer_id and
\* as killer_display) and the mission text of that request.
C2_GuessOverwrites ==
    Accepted("guess") =>
        /\ Has(Persisted, BodyPlayer(req.data))
        /\ Has(Item(Persisted, BodyPlayer(req.data)), K_guess)
        /\ LET guess == Item(Item(Persisted, BodyPlayer(req.data)), K_guess)
           IN  /\ IsDict(guess)
               /\ Keys(guess) = {K_killer_id, K_killer_display, K_mission}
               /\ Item(guess, K_killer_id) = PyStr(BodyAccused(req.data))
               /\ Item(guess, K_killer_display) = PyStr(BodyAccused(req.data))
               /\ Item(guess, K_mission) = PyStr(req.data["guessed_mission"])

\* An accepted guess that replaced an earlier guess naming another killer
\* and another mission
C2_Witness ==
    /\ Accepted("guess")
    /\ Has(PersistedBefore, BodyPlayer(req.data))
    /\ HasGuess(Item(PersistedBefore, BodyPlayer(req.data)))
    /\ LET old == Item(Item(PersistedBefore, BodyPlayer(req.data)), K_guess)
       IN  /\ Item(old, K_killer_id) # PyStr(BodyAccused(req.data))
           /\ Item(old, K_mission) # PyStr(req.data["guessed_mission"])

----------------------------------------------------------------------------
(* C3 *)

PlayersList == load_json(players_file, <<>>).val

\* The entries of players.json that carry a non-empty id
WithId == { i \in 1..Len(PlayersList) : NonEmpty(PlayersList[i], "id") }

DefaultRow(row) ==
    /\ row.points = PyInt(0)
    /\ row.mission_done = FALSE
    /\ row.discovered_by_target = FALSE
    /\ row.found_killer = FALSE
    /\ row.guess_killer_display = PyNone
    /\ row.guess_mission = PyNone

\* C3 as stated: the leaderboard has as many rows as players.json has
\* entries, and a player without an entry in state.json gets the default row.
C3_RowPerPlayer ==
    req.endpoint = "leaderboard" =>
        /\ Len(resp.json.rows) = Len(PlayersList)
        /\ \A i \in 1..Len(resp.json.rows) :
              ~Has(Persisted, resp.json.rows[i].display) => DefaultRow(resp.json.rows[i])

\* C3 amended: the leaderboard has one row per entry of players.json that
\* has a non-empty id (entries without one are skipped), and a player
\* without an entry in state.json gets the default row.
C3_RowPerPlayerWithId ==
    req.endpoint = "leaderboard" =>
        /\ resp.status = 200
        /\ Len(resp.json.rows) = Cardinality(WithId)
        /\ \A i \in WithId :
              \E j \in 1..Len(resp.json.rows) :
                 resp.json.rows[j].display = PlayersList[i]["id"]
        /\ \A i \in 1..Len(resp.json.rows) :
              ~Has(Persisted, resp.json.rows[i].display) => DefaultRow(resp.json.rows[i])

\* A leaderboard over a players file with entries lacking an id, with one
\* listed player stored in state.json and one not
C3_Witness ==
    /\ req.endpoint = "leaderboard"
    /\ Cardinality(WithId) < Len(PlayersList)
    /\ \E i \in 1..Len(resp.json.rows) : Has(Persisted, resp.json.rows[i].display)
    /\ \E i \in 1..Len(resp.json.rows) : ~Has(Persisted, resp.json.rows[i].display)

----------------------------------------------------------------------------
(* C4 *)

AssignmentsList == load_json(assignments_file, <<>>).val

\* The assignments whose killer field normalizes to the normalized input
KillerMatches(player) ==
    { i \in 1..Len(AssignmentsList) :
        /\ "killer" \in DOMAIN AssignmentsList[i]
        /\ normalize(AssignmentsList[i]["killer"]) = normalize(player) }

FirstKillerMatch(player) ==
    CHOOSE i \in KillerMatches(player) : \A j \in KillerMatches(player) : i <= j

\* C4: GET /api/mission with a non-empty player parameter that matches the
\* killer field of some assignment after normalization answers ok:true with
\* the first such assignment's killer name, mission and target and with the
\* mission_done flag stored for that killer (false for a new entry).
C4_MissionLookup ==
    (/\ req.endpoint = "mission"
     /\ NonEmpty(req.data, "player")
     /\ KillerMatches(req.data["player"]) # {}) =>
        LET a == AssignmentsList[FirstKillerMatch(req.data["player"])]
        IN  /\ resp.status = 200
            /\ resp.json.ok = TRUE
            /\ resp.json.player = [id |-> a["killer"], display |-> a["killer"]]
            /\ resp.json.mission = [text |-> GetD(a, "mission", Dash)]
            /\ resp.json.target = [display |-> GetD(a, "target", Dash)]
            /\ Has(Persisted, a["killer"])
            /\ resp.json.mission_done = IsDone(Item(Persisted, a["killer"]))
            /\ ~Has(PersistedBefore, a["killer"]) => resp.json.mission_done = FALSE

----------------------------------------------------------------------------
(* C5 *)

\* C5 as stated: a key of state.json is never removed, whatever the
\* interleaving of the requests' load and save steps: whenever state.json
\* can be read it holds every key it has held after an earlier save.
C5_NeverDeleted ==
    Readable => everKeys \subseteq Keys(Persisted)

\* C5 amended: a request removes no key unless another request opened or
\* wrote state.json between the start of its load and the end of its save
\* (so never when requests are handled one at a time): when it starts to
\* save, state.json still holds what it loaded, and when it has saved,
\* state.json can be read and holds every key it loaded.
C5_NeverDeletedUnlessStale ==
    [][ \A w \in Workers :
          /\ (pc[w] = "loaded" /\ pc'[w] = "opened" /\ ~dirty[w])
                => (Readable /\ Persisted = snap[w])
          /\ (pc[w] = "opened" /\ pc'[w] = "idle" /\ ~dirty[w])
                => (Readable' /\ Keys(snap[w]) \subseteq Keys(Persisted')) ]_vars

\* A guess has been saved last, on top of another player's entry, by a
\* worker that read state.json with no other worker touching it from the
\* start of the load to the end of the save
C5_Witness ==
    /\ lastSave = "clean"
    /\ Accepted("guess")
    /\ state_file.exists
    /\ IsWhole(state_file)
    /\ Keys(Persisted) = {Name_Eacute, Name_e}

----------------------------------------------------------------------------
(* C6 *)

\* The player whose entry the request of worker w sets
Writer(w) ==
    IF creq[w].endpoint = "mission"
    THEN cresp[w].json.player.id
    ELSE BodyPlayer(creq[w].data)

\* C6: nothing locks the load-mutate-save cycle, and the last writer wins
\* without a merge.  Whenever a worker ends its save with state.json as its
\* open(path, "w") left it and with no other worker between open and close,
\* state.json then holds exactly what that worker loaded with that worker's
\* own update: its own player's entry, and every other entry as loaded, so
\* any entry another request saved since the load is lost.
C6_LastWriterWins ==
    [][ \A w \in Workers :
          (/\ pc[w] = "opened" /\ pc'[w] = "idle"
           /\ state_file = open_w(state_file)
           /\ \A v \in Workers \ {w} : pc[v] # "opened") =>
             /\ state_file'.exists
             /\ IsWhole(state_file')
             /\ state_file'.doc = loc[w]
             /\ Keys(state_file'.doc) = Keys(snap[w]) \cup {Writer(w)}
             /\ \A k \in Keys(snap[w]) \ {Writer(w)} :
                   Item(state_file'.doc, k) = Item(snap[w], k) ]_vars

\* Two requests loaded state.json before either saved it and saved it one
\* after the other: the file holds what the second saved, and the entry
\* the first had added is gone
C6_Witness ==
    /\ lastSave = "stale"
    /\ state_file.exists
    /\ IsWhole(state_file)
    /\ \A w \in Workers : pc[w] = "idle"
    /\ Cardinality(Keys(state_file.doc)) = 1
    /\ Cardinality(everKeys) = 2

----------------------------------------------------------------------------
(* C7 *)

\* C7: POST /api/guess needs a player, an accused killer and a guessed
\* mission, each present and non-empty; a request lacking one is answered 400
\* with ok:false and the first missing field in the order player_id,
\* accused_killer_id, guessed_mission; a complete one is answered {ok:true}.
C7_GuessValidation ==
    req.endpoint = "guess" =>
        resp =
          IF ~HasPlayer(req.data)
          THEN Response(400, ErrorBody("Missing player_id"))
          ELSE IF ~HasAccused(req.data)
          THEN Response(400, ErrorBody("Missing accused_killer_id"))
          ELSE IF ~NonEmpty(req.data, "guessed_mission")
          THEN Response(400, ErrorBody("Missing guessed_mission"))
          ELSE Response(200, [ok |-> TRUE])

\* A guess that names a player but neither a killer nor a mission: only the
\* accused killer is reported
C7_Witness ==
    /\ req.endpoint = "guess"
    /\ HasPlayer(req.data)
    /\ ~HasAccused(req.data)
    /\ ~NonEmpty(req.data, "guessed_mission")
    /\ resp.status = 400
    /\ resp.json.error = "Missing accused_killer_id"

----------------------------------------------------------------------------
(* C8 *)

\* C8: normalize is idempotent, maps strings that differ only in case,
\* accents or surrounding whitespace to the same result, and maps the empty
\* string to the empty string.
C8_NormalizeIdempotent ==
    /\ n_pc \in {"twice", "variant"} => n_again = n_out
    /\ n_pc = "variant" => n_varout = n_out
    /\ (n_pc \in {"once", "twice", "variant"} /\ n_in = EmptyStr) => n_out = EmptyStr

\* An accented upper-case name with padding, normalized twice and compared
\* with the normalization of its plain lower-case form
C8_Witness ==
    /\ n_pc = "variant"
    /\ n_in = <<" ", "E_acute", " ">>
    /\ n_var = <<" ", "e", " ">>
    /\ n_out = <<"e">>
    /\ n_again = <<"e">>
    /\ n_varout = <<"e">>

----------------------------------------------------------------------------
(* C9 *)

\* C9: a request answered with an error, and any request to GET /,
\* GET /api/players or GET /api/leaderboard, leaves state.json as it was;
\* GET /api/mission answers 400 without a player and 404 without a matching
\* assignment, POST /api/mission_done 400 without a player, POST /api/guess
\* 400 when a required field is missing.
C9_ErrorsWriteNothing ==
    /\ (resp.status # 200 \/ req.endpoint \in {"health", "players", "leaderboard"})
          => state_file = before
    /\ (req.endpoint = "mission" /\ ~NonEmpty(req.data, "player")) => resp.status = 400
    /\ (req.endpoint = "mission" /\ NonEmpty(req.data, "player")
          /\ Matches(AssignmentsList, normalize(req.data["player"])) = {})
          => resp.status = 404
    /\ (req.endpoint = "mission_done" /\ ~HasPlayer(req.data)) => resp.status = 400
    /\ (req.endpoint = "guess"
          /\ ~(HasPlayer(req.data) /\ HasAccused(req.data)
                /\ NonEmpty(req.data, "guessed_mission")))
          => resp.status = 400

\* A guess without mission text, by a player who has no entry yet, refused
\* while state.json holds other entries
C9_Witness ==
    /\ req.endpoint = "guess"
    /\ resp = Response(400, ErrorBody("Missing guessed_mission"))
    /\ state_file.exists
    /\ Persisted # EmptyState
    /\ ~Has(Persisted, BodyPlayer(req.data))

----------------------------------------------------------------------------
(* C10 *)

\* The fields of an entry a request may change
MayChange(p) ==
    IF Accepted("mission_done") /\ BodyPlayer(req.data) = p THEN {K_mission_done}
    ELSE IF Accepted("guess") /\ BodyPlayer(req.data) = p THEN {K_guess}
    ELSE {}

\* C10: with requests handled one at a time, a mission that is done stays
\* done, and a request changes nothing in an entry that existed before it
\* except the field it sets (mission_done for mission_done, guess for guess,
\* nothing for the other endpoints), in its own player's entry only.
C10_DonePermanentAndFrame ==
    \A p \in Keys(PersistedBefore) :
        /\ Has(Persisted, p)
        /\ IsDone(Item(PersistedBefore, p)) => IsDone(Item(Persisted, p))
        /\ Keys(Item(Persisted, p)) \ MayChange(p)
              = Keys(Item(PersistedBefore, p)) \ MayChange(p)
        /\ \A f \in Keys(Item(PersistedBefore, p)) \ MayChange(p) :
              Item(Item(Persisted, p), f) = Item(Item(PersistedBefore, p), f)

\* A mission lookup for a killer whose entry already had the mission done,
\* a guess and hand-set points, next to another player's entry
C10_Witness ==
    /\ Accepted("mission")
    /\ Has(PersistedBefore, resp.json.player.id)
    /\ IsDone(Item(PersistedBefore, resp.json.player.id))
    /\ HasGuess(Item(PersistedBefore, resp.json.player.id))
    /\ Item(Item(PersistedBefore, resp.json.player.id), K_points) = PyInt(2)
    /\ Cardinality(Keys(PersistedBefore)) > 1

====
